---- MODULE Spec2Model ----
(***************************************************************************)
(* Turn rotation, invitations and notification fan-out of the exchange     *)
(* diary (convex/groups.ts and the entries module).  Every Convex mutation *)
(* runs as one serializable transaction, so each handler is one atomic     *)
(* action; a handler that throws leaves the tables untouched and only its  *)
(* error reaches the caller.  Groups, entries and notifications keep the   *)
(* fields the handlers branch on or copy between tables; their free text   *)
(* (name, description, title, content, message) and photos are left out.   *)
(***************************************************************************)
EXTENDS Integers, Sequences, FiniteSets, TLC

\* ---------------------------------------------------------------- bounds
Users == {"A", "B", "C"}
NoUser == "nobody"               \* getAuthUserId(ctx) returned null
Callers == Users \cup {NoUser}
MaxGroups == 1
MaxInvites == 2
MaxEntries == 2
MaxCalls == 2                    \* createEntry requests a client may have in flight
MaxRun == 4                      \* longest run of consecutive turn advances counted
MaxDrafts == 2
MaxChats == 2
MaxChatCalls == 2                \* chatWithAI actions started
GroupIds == 1..(MaxGroups + 1)   \* ids a caller can pass; the last never exists

\* Date.now() is counted in days; 7 * 24 * 60 * 60 * 1000 ms is 7 of them.
InviteTtl == 7
\* the instants at which calls are made: the start, and the day before, the
\* day of and the day after the expiry of an invitation generated at the start
Instants == {0, InviteTtl - 1, InviteTtl, InviteTtl + 1}

OK == "ok"

\* Invite codes are numbered in the order Math.random() first produced them.
Codes == 1..(MaxInvites + 1)     \* codes a caller can type; the last is never issued

VARIABLES
    groups,          \* table "groups", in insertion order; the id is the position
    invitations,     \* table "invitations", in insertion order
    entries,         \* table "entries", in insertion order
    drafts,          \* table "drafts", in insertion order; the id is the position
    aiChats,         \* table "aiChats", in insertion order
    inserted,        \* rows the latest call inserted into table "notifications",
                     \* in insertion order (no handler reads that table)
    now,             \* Date.now()
    last,            \* the latest call: its operation, what it returned (in
                     \* code the id or, for joinGroupWithCode, the code typed;
                     \* in rows the list a query returned)
    calls,           \* createEntry requests sent by handleSubmit, in sending order
    run,             \* per group: the pointer when the current run of consecutive
                     \* turn advances began, and the number of advances since
    chatCalls,       \* the chatWithAI actions started, in starting order: their
                     \* arguments, local variables and position
    turns            \* per group: who has held the turn, in order

vars == <<groups, invitations, entries, drafts, aiChats, inserted, now, last,
          calls, run, chatCalls, turns>>
tables == <<groups, invitations, entries>>
\* the tables that the handlers of groups and entries never touch
otherTables == <<drafts, aiChats>>

\* ---------------------------------------------------------------- helpers
\* Array.prototype.includes
includes(seq, x) == \E i \in 1..Len(seq) : seq[i] = x

\* ctx.db.get(groupId): the document or null
exists(groupId) == groupId \in 1..Len(groups)

\* array[index] of a JavaScript array (0-based): undefined outside the array
Undefined == "undefined"
at(array, index) ==
    IF index + 1 \in 1..Len(array) THEN array[index + 1] ELSE Undefined

\* group.turnOrder[group.currentTurnIndex]
turnHolder(group) == at(group.turnOrder, group.currentTurnIndex)

Call(op, result) == [op |-> op, result |-> result, code |-> 0, rows |-> <<>>]
\* a joinGroupWithCode call, with the code that was typed
JoinCall(result, inviteCode) ==
    [op |-> "joinGroupWithCode", result |-> result, code |-> inviteCode,
     rows |-> <<>>]
\* a call that returns the id of a document
Returned(op, id) == [op |-> op, result |-> OK, code |-> id, rows |-> <<>>]
\* a query that returns a list of documents
Listed(op, rows) == [op |-> op, result |-> OK, code |-> 0, rows |-> rows]

\* a handler that throws: the transaction writes nothing, the caller gets err
Reject(op, err) ==
    /\ last' = Call(op, err)
    /\ inserted' = <<>>
    /\ UNCHANGED <<tables, otherTables, now>>

Notification(userId, type, groupId) ==
    [userId |-> userId, type |-> type, groupId |-> groupId]

\* ---------------------------------------------------------------- createGroup
createGroupError(userId) ==
    IF userId = NoUser THEN "Not authenticated" ELSE OK

CreateGroup(userId) ==
    LET err == createGroupError(userId) IN
    IF err # OK
    THEN Reject("createGroup", err)
    ELSE /\ Len(groups) < MaxGroups
         /\ groups' = Append(groups,
                [createdBy |-> userId, members |-> <<userId>>,
                 turnOrder |-> <<userId>>, currentTurnIndex |-> 0,
                 isActive |-> TRUE])
         /\ last' = Call("createGroup", OK)
         /\ inserted' = <<>>
         /\ UNCHANGED <<invitations, entries, otherTables, now>>

\* ---------------------------------------------------------------- generateInviteCode
\* mutant: any member may invite
generateInviteCodeErrorForMembers(userId, groupId) ==
    IF userId = NoUser THEN "Not authenticated"
    ELSE IF ~exists(groupId) \/ ~includes(groups[groupId].members, userId)
         THEN "Not authorized to invite to this group"
         ELSE OK

generateInviteCodeError(userId, groupId) ==
    IF userId = NoUser THEN "Not authenticated"
    ELSE IF ~exists(groupId) \/ groups[groupId].createdBy # userId
         THEN "Not authorized to invite to this group"
         ELSE OK

\* mutant: 7 * 24 * 60 * 60 without the * 1000, ten minutes instead of a week
inviteExpiresAtSeconds(t) == t

inviteExpiresAt(t) == t + InviteTtl

\* Math.random().toString(36).substring(2, 15): a code not seen before, or,
\* nothing in the handler excluding it, one an earlier invitation already has
randomCodes ==
    LET used == {invitations[i].inviteCode : i \in 1..Len(invitations)}
    IN used \cup {Cardinality(used) + 1}

GenerateInviteCode(userId, groupId, inviteCode) ==
    LET err == generateInviteCodeError(userId, groupId) IN
    IF err # OK
    THEN Reject("generateInviteCode", err)
    ELSE /\ Len(invitations) < MaxInvites
         /\ inviteCode \in randomCodes
         /\ invitations' = Append(invitations,
                [groupId |-> groupId, invitedBy |-> userId,
                 inviteCode |-> inviteCode, status |-> "pending",
                 expiresAt |-> inviteExpiresAt(now),
                 creationTime |-> now])
         /\ last' = Call("generateInviteCode", OK)
         /\ inserted' = <<>>
         /\ UNCHANGED <<groups, entries, otherTables, now>>

\* ---------------------------------------------------------------- joinGroupWithCode
\* .withIndex("by_code", q => q.eq("inviteCode", code)).first(): position of
\* the oldest invitation carrying the code, 0 for null
findInvitation(inviteCode) ==
    LET hits == {i \in 1..Len(invitations) : invitations[i].inviteCode = inviteCode}
    IN IF hits = {} THEN 0 ELSE CHOOSE i \in hits : \A j \in hits : i <= j

\* mutant: the status of the invitation is not looked at
invitationRejectedByDateOnly(invitation, t) == invitation.expiresAt < t

invitationRejected(invitation, t) ==
    invitation.status # "pending" \/ invitation.expiresAt < t

\* mutant: a member is let in again
joinGroupWithCodeErrorNoMemberCheck(userId, inviteCode) ==
    LET inv == findInvitation(inviteCode) IN
    IF userId = NoUser THEN "Not authenticated"
    ELSE IF inv = 0 \/ invitationRejected(invitations[inv], now)
         THEN "Invalid or expired invitation code"
    ELSE IF ~exists(invitations[inv].groupId) THEN "Group not found"
    ELSE OK

joinGroupWithCodeError(userId, inviteCode) ==
    LET inv == findInvitation(inviteCode) IN
    IF userId = NoUser THEN "Not authenticated"
    ELSE IF inv = 0 \/ invitationRejected(invitations[inv], now)
         THEN "Invalid or expired invitation code"
    ELSE IF ~exists(invitations[inv].groupId) THEN "Group not found"
    ELSE IF includes(groups[invitations[inv].groupId].members, userId)
         THEN "Already a member of this group"
    ELSE OK

\* mutant: the newcomer is put at the head of the rotation
joinPatchPrepending(group, userId) ==
    [group EXCEPT !.members = Append(@, userId),
                  !.turnOrder = <<userId>> \o @]

\* mutant: the newcomer is given the turn
joinPatchTurnToNewcomer(group, userId) ==
    [group EXCEPT !.members = Append(@, userId),
                  !.turnOrder = Append(@, userId),
                  !.currentTurnIndex = Len(group.turnOrder)]

\* mutant: the rotation starts over when somebody joins
joinPatchResettingTurn(group, userId) ==
    [group EXCEPT !.members = Append(@, userId),
                  !.turnOrder = Append(@, userId),
                  !.currentTurnIndex = 0]

\* ctx.db.patch(invitation.groupId, {members: [...], turnOrder: [...]})
joinPatch(group, userId) ==
    [group EXCEPT !.members = Append(@, userId),
                  !.turnOrder = Append(@, userId)]

\* mutant: the invitation is left as it was
acceptInvitationForgotten(invitation) == invitation

\* ctx.db.patch(invitation._id, {status: "accepted"})
acceptInvitation(invitation) == [invitation EXCEPT !.status = "accepted"]

\* mutant: the members are enumerated after the patch, newcomer included
joinFanoutAfterPatch(group, groupId, userId) ==
    LET members == Append(group.members, userId)
    IN [i \in 1..Len(members) |->
           Notification(members[i], "new_member", groupId)]

\* for (const memberId of group.members), group being the document read
\* before the patch
joinFanout(group, groupId, userId) ==
    [i \in 1..Len(group.members) |->
        Notification(group.members[i], "new_member", groupId)]

\* mutant: the invitation is marked accepted before the membership is
\* looked at, so a member who types the code uses it up
JoinGroupWithCodeBurningCode(userId, inviteCode) ==
    LET err == joinGroupWithCodeError(userId, inviteCode) IN
    IF err = "Already a member of this group"
    THEN /\ invitations' =
                [invitations EXCEPT ![findInvitation(inviteCode)] =
                    acceptInvitation(invitations[findInvitation(inviteCode)])]
         /\ last' = JoinCall(err, inviteCode)
         /\ inserted' = <<>>
         /\ UNCHANGED <<groups, entries, otherTables, now>>
    ELSE IF err # OK
    THEN /\ last' = JoinCall(err, inviteCode)
         /\ inserted' = <<>>
         /\ UNCHANGED <<tables, otherTables, now>>
    ELSE LET inv == findInvitation(inviteCode)
             groupId == invitations[inv].groupId
             group == groups[groupId]
             fanout == joinFanout(group, groupId, userId)
         IN /\ groups' = [groups EXCEPT ![groupId] = joinPatch(group, userId)]
            /\ invitations' =
                   [invitations EXCEPT ![inv] = acceptInvitation(invitations[inv])]
            /\ inserted' = fanout
            /\ last' = JoinCall(OK, inviteCode)
            /\ UNCHANGED <<entries, otherTables, now>>

JoinGroupWithCode(userId, inviteCode) ==
    LET err == joinGroupWithCodeError(userId, inviteCode) IN
    IF err # OK
    THEN /\ last' = JoinCall(err, inviteCode)
         /\ inserted' = <<>>
         /\ UNCHANGED <<tables, otherTables, now>>
    ELSE LET inv == findInvitation(inviteCode)
             groupId == invitations[inv].groupId
             group == groups[groupId]
             fanout == joinFanout(group, groupId, userId)
         IN /\ groups' = [groups EXCEPT ![groupId] = joinPatch(group, userId)]
            /\ invitations' =
                   [invitations EXCEPT ![inv] = acceptInvitation(invitations[inv])]
            /\ inserted' = fanout
            /\ last' = JoinCall(OK, inviteCode)
            /\ UNCHANGED <<entries, otherTables, now>>

\* ---------------------------------------------------------------- passTurn
\* mutant: passTurn without its turn-ownership test
passTurnErrorNoTurnCheck(userId, groupId) ==
    IF userId = NoUser THEN "Not authenticated"
    ELSE IF ~exists(groupId) THEN "Group not found"
    ELSE OK

passTurnError(userId, groupId) ==
    IF userId = NoUser THEN "Not authenticated"
    ELSE IF ~exists(groupId) THEN "Group not found"
    ELSE IF turnHolder(groups[groupId]) # userId THEN "Not your turn"
    ELSE OK

\* mutant: the increment is forgotten
passTurnNextTurnIndexStuck(group) ==
    group.currentTurnIndex % Len(group.turnOrder)

\* mutant: the pointer is incremented without wrapping around
passTurnNextTurnIndexNoWrap(group) == group.currentTurnIndex + 1

passTurnNextTurnIndex(group) ==
    (group.currentTurnIndex + 1) % Len(group.turnOrder)

\* mutant: passTurn tells nobody
passTurnFanoutNone(group, groupId, userId, nextUserId) == <<>>

\* mutant: passTurn broadcasts like createEntry does
passTurnFanoutBroadcast(group, groupId, userId, nextUserId) ==
    LET others(memberId) == memberId # userId /\ memberId # nextUserId
        rest == SelectSeq(group.members, others)
    IN <<Notification(nextUserId, "your_turn", groupId)>>
       \o [i \in 1..Len(rest) |-> Notification(rest[i], "journal_passed", groupId)]

passTurnFanout(group, groupId, userId, nextUserId) ==
    <<Notification(nextUserId, "your_turn", groupId)>>

PassTurn(userId, groupId) ==
    LET err == passTurnError(userId, groupId) IN
    IF err # OK
    THEN Reject("passTurn", err)
    ELSE LET group == groups[groupId]
             nextTurnIndex == passTurnNextTurnIndex(group)
             nextUserId == at(group.turnOrder, nextTurnIndex)
             fanout == passTurnFanout(group, groupId, userId, nextUserId)
         IN /\ groups' = [groups EXCEPT ![groupId].currentTurnIndex = nextTurnIndex]
            /\ inserted' = fanout
            /\ last' = Call("passTurn", OK)
            /\ UNCHANGED <<invitations, entries, otherTables, now>>

\* ---------------------------------------------------------------- createEntry
\* mutant: createEntry without its turn-ownership test
createEntryErrorNoTurnCheck(userId, groupId) ==
    IF userId = NoUser THEN "Not authenticated"
    ELSE IF ~exists(groupId) \/ ~includes(groups[groupId].members, userId)
         THEN "Not authorized to write in this group"
    ELSE OK

\* mutant: the turn is tested before the membership
createEntryErrorTurnFirst(userId, groupId) ==
    IF userId = NoUser THEN "Not authenticated"
    ELSE IF exists(groupId) /\ turnHolder(groups[groupId]) # userId
         THEN "Not your turn to write"
    ELSE IF ~exists(groupId) \/ ~includes(groups[groupId].members, userId)
         THEN "Not authorized to write in this group"
    ELSE OK

createEntryError(userId, groupId) ==
    IF userId = NoUser THEN "Not authenticated"
    ELSE IF ~exists(groupId) \/ ~includes(groups[groupId].members, userId)
         THEN "Not authorized to write in this group"
    ELSE IF turnHolder(groups[groupId]) # userId THEN "Not your turn to write"
    ELSE OK

\* mutant: the pointer is incremented without wrapping around
createEntryNextTurnIndexNoWrap(group) == group.currentTurnIndex + 1

createEntryNextTurnIndex(group) ==
    (group.currentTurnIndex + 1) % Len(group.turnOrder)

\* mutant: the broadcast skips the author only
createEntryFanoutToNextToo(group, groupId, userId, nextUserId) ==
    LET others(memberId) == memberId # userId
        rest == SelectSeq(group.members, others)
    IN <<Notification(nextUserId, "your_turn", groupId)>>
       \o [i \in 1..Len(rest) |-> Notification(rest[i], "journal_passed", groupId)]

createEntryFanout(group, groupId, userId, nextUserId) ==
    LET others(memberId) == memberId # userId /\ memberId # nextUserId
        rest == SelectSeq(group.members, others)
    IN <<Notification(nextUserId, "your_turn", groupId)>>
       \o [i \in 1..Len(rest) |-> Notification(rest[i], "journal_passed", groupId)]

\* mutant: the entry is stamped with the pointer after the advance
newEntryAfterAdvance(group, groupId, userId) ==
    [groupId |-> groupId, authorId |-> userId,
     turnIndex |-> (group.currentTurnIndex + 1) % Len(group.turnOrder)]

\* ctx.db.insert("entries", {groupId, authorId: userId, ...,
\* turnIndex: group.currentTurnIndex})
newEntry(group, groupId, userId) ==
    [groupId |-> groupId, authorId |-> userId,
     turnIndex |-> group.currentTurnIndex]

CreateEntry(userId, groupId) ==
    LET err == createEntryError(userId, groupId) IN
    IF err # OK
    THEN Reject("createEntry", err)
    ELSE LET group == groups[groupId]
             nextTurnIndex == createEntryNextTurnIndex(group)
             nextUserId == at(group.turnOrder, nextTurnIndex)
             fanout == createEntryFanout(group, groupId, userId, nextUserId)
         IN /\ Len(entries) < MaxEntries
            /\ entries' = Append(entries, newEntry(group, groupId, userId))
            /\ groups' = [groups EXCEPT ![groupId].currentTurnIndex = nextTurnIndex]
            /\ inserted' = fanout
            /\ last' = Call("createEntry", OK)
            /\ UNCHANGED <<invitations, otherTables, now>>


\* ---------------------------------------------------------------- saveDraft
\* the arguments of saveDraft besides groupId; title, photos and
\* isQuickReflection are optional.  The handler only copies them, so each
\* value is written as a string, undefined being one of them.
DraftArgs ==
    {[title |-> Undefined, content |-> "c1", photos |-> Undefined,
      isQuickReflection |-> Undefined],
     [title |-> "t2", content |-> "c2", photos |-> "[p2]",
      isQuickReflection |-> "true"]}

saveDraftError(userId, groupId) ==
    IF userId = NoUser THEN "Not authenticated"
    ELSE IF ~exists(groupId) \/ ~includes(groups[groupId].members, userId)
         THEN "Not authorized to save draft in this group"
    ELSE OK

\* mutant: the draft is looked up by group alone
findDraftByGroup(groupId, userId) ==
    LET hits == {i \in 1..Len(drafts) : drafts[i].groupId = groupId}
    IN IF hits = {} THEN 0 ELSE CHOOSE i \in hits : \A j \in hits : i <= j

\* .withIndex("by_group_and_author", ...).first(): position of the oldest
\* draft of the author in the group, 0 for null
findDraft(groupId, userId) ==
    LET hits == {i \in 1..Len(drafts) :
                    drafts[i].groupId = groupId /\ drafts[i].authorId = userId}
    IN IF hits = {} THEN 0 ELSE CHOOSE i \in hits : \A j \in hits : i <= j

SaveDraft(userId, groupId, args) ==
    LET err == saveDraftError(userId, groupId) IN
    IF err # OK
    THEN Reject("saveDraft", err)
    ELSE LET existingDraft == findDraft(groupId, userId) IN
         /\ IF existingDraft # 0
            THEN /\ drafts' = [drafts EXCEPT ![existingDraft] =
                        [@ EXCEPT !.title = args.title,
                                  !.content = args.content,
                                  !.photos = args.photos,
                                  !.isQuickReflection = args.isQuickReflection]]
                 /\ last' = Returned("saveDraft", existingDraft)
            ELSE /\ Len(drafts) < MaxDrafts
                 /\ drafts' = Append(drafts,
                        [groupId |-> groupId, authorId |-> userId,
                         title |-> args.title, content |-> args.content,
                         photos |-> args.photos,
                         isQuickReflection |-> args.isQuickReflection])
                 /\ last' = Returned("saveDraft", Len(drafts) + 1)
         /\ inserted' = <<>>
         /\ UNCHANGED <<tables, aiChats, now>>

\* ---------------------------------------------------------------- chat sessions
NoGroup == 0                     \* groupId left out: the chat outside any group

\* a lookup that forgets the group half of the key
findChatByUser(userId, groupId) ==
    LET hits == {i \in 1..Len(aiChats) : aiChats[i].userId = userId}
    IN IF hits = {} THEN 0 ELSE CHOOSE i \in hits : \A j \in hits : i <= j

\* .withIndex("by_user_and_group", ...).first(), 0 for null
findChat(userId, groupId) ==
    LET hits == {i \in 1..Len(aiChats) :
                    aiChats[i].userId = userId /\ aiChats[i].groupId = groupId}
    IN IF hits = {} THEN 0 ELSE CHOOSE i \in hits : \A j \in hits : i <= j

\* internal mutation: chatWithAI runs it with the transcript to keep
SaveChatSession(userId, groupId, messages, context) ==
    LET existingChat == findChat(userId, groupId) IN
    /\ IF existingChat # 0
       THEN aiChats' = [aiChats EXCEPT ![existingChat] =
                [@ EXCEPT !.messages = messages, !.context = context]]
       ELSE /\ Len(aiChats) < MaxChats
            /\ aiChats' = Append(aiChats,
                   [userId |-> userId, groupId |-> groupId,
                    messages |-> messages, context |-> context])
    /\ last' = Call("saveChatSession", OK)
    /\ inserted' = <<>>
    /\ UNCHANGED <<tables, drafts, now>>

\* ctx.db.delete
without(seq, i) == SubSeq(seq, 1, i - 1) \o SubSeq(seq, i + 1, Len(seq))

ClearChatHistory(userId, groupId) ==
    IF userId = NoUser
    THEN Reject("clearChatHistory", "Not authenticated")
    ELSE LET chatSession == findChat(userId, groupId) IN
         /\ aiChats' = IF chatSession # 0 THEN without(aiChats, chatSession)
                       ELSE aiChats
         /\ last' = Call("clearChatHistory", OK)
         /\ inserted' = <<>>
         /\ UNCHANGED <<tables, drafts, now>>

\* ---------------------------------------------------------------- chatWithAI
\* chatWithAI is an action, not a transaction: it reads the history with the
\* query getChatHistory, waits for the completion endpoint, and writes with
\* the mutation saveChatSession.  Other calls run in between.
UserMessages == {"m1", "m2"}
ApiReply == "reply"              \* data.choices[0].message.content
fallbackResponses ==
    <<"I'm here to listen.", "Sometimes the best entries",
      "Writing can be a wonderful way", "Every day has its own story.",
      "I'd love to hear about something">>

Message(role, content) == [role |-> role, content |-> content, timestamp |-> now]

\* the handler up to the fetch: the caller is looked up, the history read,
\* the user's message pushed
ChatWithAI(userId, groupId, message) ==
    IF userId = NoUser
    THEN Reject("chatWithAI", "Not authenticated") /\ UNCHANGED chatCalls
    ELSE LET found == findChat(userId, groupId)
             chatSession == IF found = 0 THEN <<>> ELSE aiChats[found].messages
         IN /\ Len(chatCalls) < MaxChatCalls
            /\ chatCalls' = Append(chatCalls,
                   [userId |-> userId, groupId |-> groupId, message |-> message,
                    context |-> Undefined,
                    chatSession |-> chatSession,
                    messages |-> Append(chatSession, Message("user", message)),
                    pc |-> "fetch", branch |-> Undefined,
                    result |-> [message |-> Undefined, timestamp |-> 0]])
            /\ last' = Call("getChatHistory", OK)
            /\ inserted' = <<>>
            /\ UNCHANGED <<tables, otherTables, now>>

\* the endpoint answered with a text: the assistant's message is pushed
ChatReplied(i) ==
    /\ chatCalls[i].pc = "fetch"
    /\ chatCalls' = [chatCalls EXCEPT
           ![i].messages = Append(@, Message("assistant", ApiReply)),
           ![i].result = [message |-> ApiReply, timestamp |-> now],
           ![i].branch = "try",
           ![i].pc = "save"]
    /\ UNCHANGED <<tables, otherTables, inserted, now, last>>

\* a catch block that answers the caller but pushes nothing
ChatFellBackUnsaved(i, k) ==
    /\ chatCalls[i].pc = "fetch"
    /\ k \in 0..(Len(fallbackResponses) - 1)
    /\ chatCalls' = [chatCalls EXCEPT
           ![i].result = [message |-> at(fallbackResponses, k), timestamp |-> now],
           ![i].branch = "catch",
           ![i].pc = "save"]
    /\ UNCHANGED <<tables, otherTables, inserted, now, last>>

\* the fetch was rejected, the status was not ok or the answer was empty:
\* the catch block pushes fallbackResponses[Math.floor(Math.random() * 5)]
ChatFellBack(i, k) ==
    /\ chatCalls[i].pc = "fetch"
    /\ k \in 0..(Len(fallbackResponses) - 1)
    /\ chatCalls' = [chatCalls EXCEPT
           ![i].messages = Append(@, Message("assistant", at(fallbackResponses, k))),
           ![i].result = [message |-> at(fallbackResponses, k), timestamp |-> now],
           ![i].branch = "catch",
           ![i].pc = "save"]
    /\ UNCHANGED <<tables, otherTables, inserted, now, last>>

\* ctx.runMutation(internal.ai.saveChatSession, ...) and the return that
\* follows it, in either branch
ChatSaved(i) ==
    /\ chatCalls[i].pc = "save"
    /\ SaveChatSession(chatCalls[i].userId, chatCalls[i].groupId,
                       chatCalls[i].messages, chatCalls[i].context)
    /\ chatCalls' = [chatCalls EXCEPT ![i].pc = "returned"]

\* ---------------------------------------------------------------- queries of the entries
\* args.limit || 50; a limit left out is written 0, which || treats alike
DefaultLimit == 50
limitOr50(limit) == IF limit = 0 THEN DefaultLimit ELSE limit

\* the ids of the entries of the group, by_group_and_date: entryDate is the
\* Date.now() of the insert, so this is the order of insertion
entriesOf(groupId) ==
    SelectSeq([i \in 1..Len(entries) |-> i], LAMBDA i : entries[i].groupId = groupId)

reverse(seq) == [i \in 1..Len(seq) |-> seq[Len(seq) + 1 - i]]
take(seq, n) == SubSeq(seq, 1, IF n < Len(seq) THEN n ELSE Len(seq))

\* mutant: the query forgets to look at the members
getGroupEntriesErrorOpen(userId, groupId) ==
    IF ~exists(groupId) THEN "Not authorized to view this group" ELSE OK

\* what the query throws for a signed-in caller
getGroupEntriesError(userId, groupId) ==
    IF ~exists(groupId) \/ ~includes(groups[groupId].members, userId)
    THEN "Not authorized to view this group"
    ELSE OK

GetGroupEntries(userId, groupId, limit) ==
    /\ IF userId = NoUser
       THEN last' = Listed("getGroupEntries", <<>>)
       ELSE LET err == getGroupEntriesError(userId, groupId) IN
            IF err # OK
            THEN last' = Call("getGroupEntries", err)
            ELSE last' = Listed("getGroupEntries",
                            take(reverse(entriesOf(groupId)), limitOr50(limit)))
    /\ inserted' = <<>>
    /\ UNCHANGED <<tables, otherTables, now>>

getEntriesForCalendarError(userId, groupId) ==
    IF ~exists(groupId) \/ ~includes(groups[groupId].members, userId)
    THEN "Not authorized to view this group"
    ELSE OK

\* inMonth: the ids of the entries whose entryDate lies between the first and
\* the last instant of the month asked for
GetEntriesForCalendar(userId, groupId, inMonth) ==
    /\ IF userId = NoUser
       THEN last' = Listed("getEntriesForCalendar", <<>>)
       ELSE LET err == getEntriesForCalendarError(userId, groupId) IN
            IF err # OK
            THEN last' = Call("getEntriesForCalendar", err)
            ELSE last' = Listed("getEntriesForCalendar",
                            SelectSeq(entriesOf(groupId), LAMBDA i : i \in inMonth))
    /\ inserted' = <<>>
    /\ UNCHANGED <<tables, otherTables, now>>

\* ---------------------------------------------------------------- time
\* Date.now() moves on between two calls.  Only invitations carry a date, so
\* the clock is started by the first of them.
Tick(t) ==
    /\ t > now
    /\ invitations # <<>>
    /\ now' = t
    /\ last' = Call("tick", OK)
    /\ inserted' = <<>>
    /\ UNCHANGED <<tables, otherTables>>

\* ---------------------------------------------------------------- specification
InitTables ==
    /\ groups = <<>>
    /\ invitations = <<>>
    /\ entries = <<>>
    /\ drafts = <<>>
    /\ aiChats = <<>>
    /\ inserted = <<>>
    /\ now = 0
    /\ last = Call("init", OK)

Init ==
    /\ InitTables
    /\ calls = <<>>
    /\ run = <<>>
    /\ chatCalls = <<>>
    /\ turns = <<>>

\* no request is in flight and no history is kept
Quiet == UNCHANGED <<calls, run, chatCalls, turns>>

Next ==
    \/ \E u \in Callers : CreateGroup(u) /\ Quiet
    \/ \E u \in Callers, g \in GroupIds, c \in Codes :
          GenerateInviteCode(u, g, c) /\ Quiet
    \/ \E u \in Callers, c \in Codes : JoinGroupWithCode(u, c) /\ Quiet
    \/ \E u \in Callers, g \in GroupIds : PassTurn(u, g) /\ Quiet
    \/ \E u \in Callers, g \in GroupIds : CreateEntry(u, g) /\ Quiet
    \/ \E t \in Instants : Tick(t) /\ Quiet

Spec == Init /\ [][Next]_vars

\* ---------------------------------------------------------------- concurrent submits
\* WriteEntry.handleSubmit: the Publish button stays enabled while a request
\* is on its way, so a client can send createEntry again before the first
\* request has run.  The write view is opened from a button shown while
\* group.isMyTurn.
HandleSubmit(userId, groupId) ==
    /\ Len(calls) < MaxCalls
    /\ exists(groupId)
    /\ turnHolder(groups[groupId]) = userId
    /\ LET pending == {i \in 1..Len(calls) :
                          /\ calls[i].state = "sent"
                          /\ calls[i].caller = userId
                          /\ calls[i].groupId = groupId}
       IN calls' = Append(calls,
              [caller |-> userId, groupId |-> groupId, state |-> "sent",
               twin |-> IF pending = {} THEN 0
                        ELSE CHOOSE i \in pending : \A j \in pending : i <= j,
               size |-> Len(groups[groupId].turnOrder),
               overtaken |-> FALSE])
    /\ UNCHANGED <<tables, otherTables, inserted, now, last, run, chatCalls,
                 turns>>

\* the requests still in flight for the group of a call that has just advanced
\* the pointer learn that somebody other than their sender advanced it
noteAdvance(reqs, userId, groupId) ==
    [i \in 1..Len(reqs) |->
        IF reqs[i].state = "sent" /\ reqs[i].groupId = groupId
           /\ reqs[i].caller # userId
        THEN [reqs[i] EXCEPT !.overtaken = TRUE]
        ELSE reqs[i]]

\* the transaction of request i runs
DeliverCreateEntry(i) ==
    /\ calls[i].state = "sent"
    /\ CreateEntry(calls[i].caller, calls[i].groupId)
    /\ LET seen == IF last'.result = OK
                   THEN noteAdvance(calls, calls[i].caller, calls[i].groupId)
                   ELSE calls
       IN calls' = [seen EXCEPT ![i].state = last'.result]
    /\ UNCHANGED <<run, chatCalls, turns>>

\* the calls of signed-in clients, and the requests of handleSubmit on their way
NextConcurrent ==
    \/ \E u \in Users : CreateGroup(u) /\ UNCHANGED <<calls, run, chatCalls, turns>>
    \/ \E u \in Users, g \in GroupIds, c \in Codes :
          GenerateInviteCode(u, g, c) /\ UNCHANGED <<calls, run, chatCalls, turns>>
    \/ \E u \in Users, c \in Codes :
          JoinGroupWithCode(u, c) /\ UNCHANGED <<calls, run, chatCalls, turns>>
    \/ \E u \in Users, g \in GroupIds :
          /\ PassTurn(u, g)
          /\ calls' = IF last'.result = OK THEN noteAdvance(calls, u, g) ELSE calls
          /\ UNCHANGED <<run, chatCalls, turns>>
    \/ \E u \in Users, g \in GroupIds : HandleSubmit(u, g)
    \/ \E i \in 1..Len(calls) : DeliverCreateEntry(i)

SpecConcurrent == Init /\ [][NextConcurrent]_vars

\* ---------------------------------------------------------------- runs of turn advances
\* a run starts when the group is created and again when somebody joins
startRun(group) == [initial |-> group.currentTurnIndex, n |-> 0]

NextRun ==
    \/ \E u \in Callers :
          /\ CreateGroup(u)
          /\ run' = IF last'.result = OK
                    THEN Append(run, startRun(groups'[Len(groups')]))
                    ELSE run
          /\ UNCHANGED <<calls, chatCalls, turns>>
    \/ \E u \in Callers, g \in GroupIds, c \in Codes :
          GenerateInviteCode(u, g, c) /\ UNCHANGED <<calls, run, chatCalls, turns>>
    \/ \E u \in Callers, c \in Codes :
          /\ JoinGroupWithCode(u, c)
          /\ run' = [g \in 1..Len(run) |->
                        IF groups'[g].turnOrder # groups[g].turnOrder
                        THEN startRun(groups'[g]) ELSE run[g]]
          /\ UNCHANGED <<calls, chatCalls, turns>>
    \/ \E u \in Callers, g \in GroupIds :
          /\ PassTurn(u, g) \/ CreateEntry(u, g)
          /\ last'.result = OK => run[g].n < MaxRun
          /\ run' = IF last'.result = OK
                    THEN [run EXCEPT ![g].n = @ + 1]
                    ELSE run
          /\ UNCHANGED <<calls, chatCalls, turns>>

SpecRun == Init /\ [][NextRun]_vars

\* ---------------------------------------------------------------- a notification insert that throws
\* Every ctx.db.insert("notifications", ...) is awaited in the handler itself,
\* after the primary writes and with no try/catch around it.  When it throws,
\* the handler throws, and the writes its transaction had made are discarded.
FanoutError == "notification insert failed"

CreateEntryFanoutThrows(userId, groupId) ==
    /\ createEntryError(userId, groupId) = OK
    /\ Reject("createEntry", FanoutError)

PassTurnFanoutThrows(userId, groupId) ==
    /\ passTurnError(userId, groupId) = OK
    /\ Reject("passTurn", FanoutError)

JoinGroupWithCodeFanoutThrows(userId, inviteCode) ==
    /\ joinGroupWithCodeError(userId, inviteCode) = OK
    /\ last' = JoinCall(FanoutError, inviteCode)
    /\ inserted' = <<>>
    /\ UNCHANGED <<tables, otherTables, now>>

NextFault ==
    \/ \E u \in Callers : CreateGroup(u) /\ Quiet
    \/ \E u \in Callers, g \in GroupIds, c \in Codes :
          GenerateInviteCode(u, g, c) /\ Quiet
    \/ \E u \in Callers, c \in Codes : JoinGroupWithCode(u, c) /\ Quiet
    \/ \E u \in Callers, g \in GroupIds : PassTurn(u, g) /\ Quiet
    \/ \E u \in Callers, g \in GroupIds : CreateEntry(u, g) /\ Quiet
    \/ \E u \in Callers, g \in GroupIds : CreateEntryFanoutThrows(u, g) /\ Quiet
    \/ \E u \in Callers, g \in GroupIds : PassTurnFanoutThrows(u, g) /\ Quiet
    \/ \E u \in Callers, c \in Codes : JoinGroupWithCodeFanoutThrows(u, c) /\ Quiet

SpecFault == Init /\ [][NextFault]_vars

\* ---------------------------------------------------------------- drafts, queries, the whole surface
\* The specifications below are about what two users and a client that is not
\* signed in can do while the clock stands still.
Pair == {"A", "B"}
PairCallers == Pair \cup {NoUser}

NextPair ==
    \/ \E u \in PairCallers : CreateGroup(u) /\ Quiet
    \/ \E u \in PairCallers, g \in GroupIds, c \in Codes :
          GenerateInviteCode(u, g, c) /\ Quiet
    \/ \E u \in PairCallers, c \in Codes : JoinGroupWithCode(u, c) /\ Quiet
    \/ \E u \in PairCallers, g \in GroupIds : PassTurn(u, g) /\ Quiet
    \/ \E u \in PairCallers, g \in GroupIds : CreateEntry(u, g) /\ Quiet

\* the groups and their drafts
NextDrafts ==
    \/ NextPair
    \/ \E u \in PairCallers, g \in GroupIds, a \in DraftArgs :
          SaveDraft(u, g, a) /\ Quiet

SpecDrafts == Init /\ [][NextDrafts]_vars

\* the groups and the two queries of their entries
NextQueries ==
    \/ NextPair
    \/ \E u \in PairCallers, g \in GroupIds, n \in {0, 1} :
          GetGroupEntries(u, g, n) /\ Quiet
    \/ \E u \in PairCallers, g \in GroupIds, d \in SUBSET (1..MaxEntries) :
          GetEntriesForCalendar(u, g, d) /\ Quiet

SpecQueries == Init /\ [][NextQueries]_vars

\* every operation the groups, entries and chat modules expose, each of the
\* operations on drafts and chats called with one value of its free arguments
Transcript == <<[role |-> "user", content |-> "m1", timestamp |-> 0],
                [role |-> "assistant", content |-> "r1", timestamp |-> 0]>>
PlainDraft == CHOOSE a \in DraftArgs : a.title = Undefined

NextSurface ==
    \/ NextPair
    \/ \E u \in PairCallers, g \in GroupIds : SaveDraft(u, g, PlainDraft) /\ Quiet
    \/ \E u \in Pair : SaveChatSession(u, NoGroup, Transcript, Undefined) /\ Quiet
    \/ \E u \in PairCallers : ClearChatHistory(u, NoGroup) /\ Quiet
    \/ \E u \in PairCallers, g \in GroupIds : GetGroupEntries(u, g, 0) /\ Quiet
    \/ \E u \in PairCallers, g \in GroupIds :
          GetEntriesForCalendar(u, g, 1..MaxEntries) /\ Quiet

SpecSurface == Init /\ [][NextSurface]_vars

\* ---------------------------------------------------------------- the chat
\* one user, in and outside a group, and a client that is not signed in
ChatCallers == {"A", NoUser}
ChatGroups == {NoGroup, 1}
NoChat == UNCHANGED <<calls, run, turns>>

NextChat ==
    \/ \E u \in ChatCallers, g \in ChatGroups, m \in UserMessages :
          ChatWithAI(u, g, m) /\ NoChat
    \/ \E i \in 1..Len(chatCalls) : ChatReplied(i) /\ NoChat
    \/ \E i \in 1..Len(chatCalls), k \in 0..4 : ChatFellBack(i, k) /\ NoChat
    \/ \E i \in 1..Len(chatCalls) : ChatSaved(i) /\ NoChat
    \/ \E u \in ChatCallers, g \in ChatGroups : ClearChatHistory(u, g) /\ Quiet

SpecChat == Init /\ [][NextChat]_vars

\* ---------------------------------------------------------------- the rotation over time
\* turns[g][u] remembers u's latest turn in group g: since is turnOrder as a
\* set when that turn began ({} while u has not held the turn), held[v] is
\* how often v got the turn after that, counted up to 2.
MaxHeld == 2
noTurns == [u \in Users |-> [since |-> {}, held |-> [v \in Users |-> 0]]]

noteTurn(history, holder, order) ==
    [u \in Users |->
        IF u = holder
        THEN [since |-> order, held |-> [v \in Users |-> 0]]
        ELSE [history[u] EXCEPT
                 !.held[holder] = IF @ < MaxHeld THEN @ + 1 ELSE MaxHeld]]

\* createGroup hands the first turn to the creator
FairCreateGroup(u) ==
    /\ CreateGroup(u)
    /\ turns' = IF last'.result = OK
                THEN Append(turns, noteTurn(noTurns, u, {u}))
                ELSE turns
    /\ UNCHANGED <<calls, run, chatCalls>>

\* createEntry or passTurn: when it succeeds the next holder's turn begins
TakeTurn(u, g) ==
    /\ PassTurn(u, g) \/ CreateEntry(u, g)
    /\ turns' = IF last'.result = OK
                THEN [turns EXCEPT ![g] =
                         noteTurn(@, turnHolder(groups'[g]),
                                  {groups'[g].turnOrder[i] :
                                      i \in 1..Len(groups'[g].turnOrder)})]
                ELSE turns
    /\ UNCHANGED <<calls, run, chatCalls>>

\* the turn-holder of group g writes or passes
HolderActs(g) ==
    /\ g \in 1..Len(groups)
    /\ \E u \in Users : u = turnHolder(groups[g]) /\ TakeTurn(u, g)

NextFair ==
    \/ \E u \in Users : FairCreateGroup(u)
    \/ \E u \in Users, g \in GroupIds, c \in Codes :
          GenerateInviteCode(u, g, c) /\ Quiet
    \/ \E u \in Users, c \in Codes : JoinGroupWithCode(u, c) /\ Quiet
    \/ \E u \in Users, g \in GroupIds : TakeTurn(u, g)

\* every turn-holder eventually writes or passes
SpecFair ==
    Init /\ [][NextFair]_vars /\ \A g \in GroupIds : WF_vars(HolderActs(g))

\* ---------------------------------------------------------------- vocabulary of the properties
Succeeded(op) == last.op = op /\ last.result = OK
GroupsNow == 1..Len(groups)
Range(seq) == {seq[i] : i \in 1..Len(seq)}
Count(rows, type) == Cardinality({i \in 1..Len(rows) : rows[i].type = type})
Recipients(rows, type) == {rows[i].userId : i \in {j \in 1..Len(rows) : rows[j].type = type}}

\* ---------------------------------------------------------------- C1
\* C1: in every reachable state, every group's currentTurnIndex is an index
\* of its turnOrder: 0 <= currentTurnIndex < length(turnOrder).
TurnIndexInRange ==
    \A g \in GroupsNow :
        /\ groups[g].currentTurnIndex >= 0
        /\ groups[g].currentTurnIndex < Len(groups[g].turnOrder)

\* a submit by the last of three members has wrapped the pointer to 0
TurnIndexWrapped ==
    /\ Succeeded("createEntry")
    /\ \E g \in GroupsNow :
          Len(groups[g].turnOrder) = 3 /\ groups[g].currentTurnIndex = 0

\* ---------------------------------------------------------------- C2
\* C2: a createEntry or passTurn call by anyone who is not
\* turnOrder[currentTurnIndex] of the group is rejected, and it writes
\* nothing: no entry, no pointer change, no notification.
OnlyTurnHolderWritesOrPasses ==
    [][last'.op \in {"createEntry", "passTurn"}
       => \A u \in Callers, g \in GroupsNow :
             (u # turnHolder(groups[g]) /\ (CreateEntry(u, g) \/ PassTurn(u, g)))
             => /\ last'.result # OK
                /\ UNCHANGED tables
                /\ inserted' = <<>>]_vars

\* a call was refused for not holding the turn, in a group of several members
NonHolderRefused ==
    /\ last.result \in {"Not your turn", "Not your turn to write"}
    /\ \E g \in GroupsNow : Len(groups[g].turnOrder) >= 2

\* ---------------------------------------------------------------- C3
\* C3 (as claimed): of two createEntry requests that the same turn-holder had
\* in flight at the same time, at most one succeeds.
ConcurrentSubmitsNeverBothSucceed ==
    \A i \in 1..Len(calls) :
        calls[i].twin # 0
        => ~(calls[i].state = OK /\ calls[calls[i].twin].state = OK)

\* C3 (amended): in a group of at least two members, and as long as nobody
\* else advances the pointer while the two requests are in flight, at most one
\* of them succeeds, and the other one is refused for not holding the turn.
ConcurrentSubmitsOneWins ==
    \A i \in 1..Len(calls) :
        LET j == calls[i].twin IN
        (j # 0 /\ calls[j].size >= 2 /\ ~calls[i].overtaken /\ ~calls[j].overtaken)
        => /\ ~(calls[i].state = OK /\ calls[j].state = OK)
           /\ (calls[i].state = OK /\ calls[j].state # "sent")
                  => calls[j].state = "Not your turn to write"
           /\ (calls[j].state = OK /\ calls[i].state # "sent")
                  => calls[i].state = "Not your turn to write"

\* both requests of a member of a larger group have run: one was served, the
\* other refused
SecondSubmitRefused ==
    \E i \in 1..Len(calls) :
        LET j == calls[i].twin IN
        /\ j # 0 /\ calls[j].size >= 2
        /\ ~calls[i].overtaken /\ ~calls[j].overtaken
        /\ {calls[i].state, calls[j].state} = {OK, "Not your turn to write"}

\* ---------------------------------------------------------------- C4
\* C4: after N consecutive successful createEntry or passTurn calls on a group
\* with no join among them, starting with the pointer at initial,
\* currentTurnIndex = (initial + N) mod length(turnOrder).
PointerAfterRun ==
    \A g \in 1..Len(run) :
        groups[g].currentTurnIndex
            = (run[g].initial + run[g].n) % Len(groups[g].turnOrder)

\* four advances in a row in a group of three, begun away from position 0
LongRunWraps ==
    \E g \in 1..Len(run) :
        /\ run[g].n = 4 /\ run[g].initial = 1
        /\ Len(groups[g].turnOrder) = 3

\* ---------------------------------------------------------------- C5
\* C5: a successful createEntry inserts exactly one your_turn notification,
\* for the new turn-holder, exactly max(0, length(members) - 2)
\* journal_passed notifications, one for each member who is neither the author
\* nor the new turn-holder, and no other notification.
CreateEntryFanoutExact ==
    [][last' = Call("createEntry", OK)
       => \A u \in Users, g \in GroupsNow :
          CreateEntry(u, g)
          => LET members == groups[g].members
                 newHolder == turnHolder(groups'[g])
                 bystanders == Range(members) \ {u, newHolder}
                 expected == IF Len(members) - 2 > 0 THEN Len(members) - 2 ELSE 0
             IN /\ Count(inserted', "your_turn") = 1
                /\ Recipients(inserted', "your_turn") = {newHolder}
                /\ Count(inserted', "journal_passed") = expected
                /\ Recipients(inserted', "journal_passed") = bystanders
                /\ Cardinality(bystanders) = expected
                /\ Len(inserted') = 1 + expected
                /\ \A i \in 1..Len(inserted') : inserted'[i].groupId = g]_vars

\* an entry was submitted in a group of three: a bystander was told
BystanderNotified ==
    /\ Succeeded("createEntry")
    /\ Count(inserted, "journal_passed") = 1

\* ---------------------------------------------------------------- C6
\* C6: none of the notifications that a successful createEntry, passTurn or
\* joinGroupWithCode inserts is addressed to the caller.
ActorNeverNotified ==
    [][(last'.result = OK /\ inserted' # <<>>)
       => \A u \in Users :
             (\/ \E g \in GroupsNow : CreateEntry(u, g) \/ PassTurn(u, g)
              \/ \E c \in Codes : JoinGroupWithCode(u, c))
             => \A i \in 1..Len(inserted') : inserted'[i].userId # u]_vars

\* ---------------------------------------------------------------- C7
redeemable(userId, inviteCode) ==
    LET inv == findInvitation(inviteCode) IN
    /\ inv # 0
    /\ invitations[inv].status = "pending"
    /\ now < invitations[inv].expiresAt
    /\ ~includes(groups[invitations[inv].groupId].members, userId)

\* C7: joinGroupWithCode by an authenticated user succeeds if and only if the
\* invitation found for the code is pending, now < expiresAt, and the user is
\* not yet in the members of the group.
JoinSucceedsIffRedeemable ==
    [][last'.op = "joinGroupWithCode"
       => \A u \in Users :
             JoinGroupWithCode(u, last'.code)
             => (last'.result = OK <=> redeemable(u, last'.code))]_vars

\* ---------------------------------------------------------------- C8
redeemed(inviteCode) ==
    \E i \in 1..Len(invitations) :
        invitations[i].inviteCode = inviteCode /\ invitations[i].status = "accepted"

accepted(invs, groupId) ==
    Cardinality({i \in 1..Len(invs) :
                    invs[i].groupId = groupId /\ invs[i].status = "accepted"})

\* C8: once a code has been redeemed, every later joinGroupWithCode with that
\* code fails, whoever calls; and a group never gains more members than
\* invitations of it were accepted.
RedeemedCodeIsDead ==
    [][/\ (last'.op = "joinGroupWithCode" /\ redeemed(last'.code))
             => last'.result # OK /\ UNCHANGED tables
       /\ groups' # groups
             => \A g \in GroupsNow :
                   Len(groups'[g].members) - Len(groups[g].members)
                       <= accepted(invitations', g) - accepted(invitations, g)]_vars

\* a code that had been redeemed was tried again and refused
SecondRedemptionRefused ==
    /\ last.op = "joinGroupWithCode"
    /\ last.result = "Invalid or expired invitation code"
    /\ \E i \in 1..Len(invitations) :
          /\ invitations[i].inviteCode = last.code
          /\ invitations[i].status = "accepted"
          /\ invitations[i].expiresAt > now

\* ---------------------------------------------------------------- C9
\* C9: an invitation generated at time t is pending and expires at t + 7 days;
\* a non-member redeeming it at t + 6 days succeeds and is appended at the end
\* of members and of turnOrder; redeeming it at t + 8 days fails.
InviteLastsSevenDays ==
    [][/\ last' = Call("generateInviteCode", OK)
             => LET inv == invitations'[Len(invitations')] IN
                /\ Len(invitations') = Len(invitations) + 1
                /\ inv.status = "pending"
                /\ inv.creationTime = now
                /\ inv.expiresAt = now + 7
       /\ last'.op = "joinGroupWithCode"
          => \A u \in Users :
             JoinGroupWithCode(u, last'.code)
             => LET i == findInvitation(last'.code) IN
                (i # 0 /\ invitations[i].status = "pending")
                => LET inv == invitations[i]
                       group == groups[inv.groupId]
                   IN /\ (now = inv.creationTime + 6 /\ ~includes(group.members, u))
                         => /\ last'.result = OK
                            /\ groups'[inv.groupId].members = Append(group.members, u)
                            /\ groups'[inv.groupId].turnOrder = Append(group.turnOrder, u)
                      /\ now = inv.creationTime + 8
                         => /\ last'.result = "Invalid or expired invitation code"
                            /\ UNCHANGED tables]_vars

\* an invitation was redeemed on its sixth day
RedeemedOnDaySix ==
    /\ Succeeded("joinGroupWithCode")
    /\ \E i \in 1..Len(invitations) :
          /\ invitations[i].status = "accepted"
          /\ now = invitations[i].creationTime + 6

\* ---------------------------------------------------------------- C10
ABC == <<"A", "B", "C">>

\* C10: with turnOrder = [A,B,C]: at index 0, A's createEntry moves the index
\* to 1 and notifies B your_turn and C journal_passed and nobody else; at
\* index 1, B's passTurn moves the index to 2 and notifies C your_turn and
\* nobody else; at index 2, A's createEntry fails with not-your-turn.
ScenarioABC ==
    [][last'.op \in {"createEntry", "passTurn"}
       => \A g \in GroupsNow :
          (groups[g].turnOrder = ABC /\ groups[g].members = ABC)
          => /\ (groups[g].currentTurnIndex = 0 /\ last'.op = "createEntry"
                 /\ CreateEntry("A", g))
                => /\ last'.result = OK
                   /\ groups'[g].currentTurnIndex = 1
                   /\ inserted' = <<Notification("B", "your_turn", g),
                                    Notification("C", "journal_passed", g)>>
             /\ (groups[g].currentTurnIndex = 1 /\ last'.op = "passTurn"
                 /\ PassTurn("B", g))
                => /\ last'.result = OK
                   /\ groups'[g].currentTurnIndex = 2
                   /\ inserted' = <<Notification("C", "your_turn", g)>>
             /\ (groups[g].currentTurnIndex = 2 /\ last'.op = "createEntry"
                 /\ CreateEntry("A", g))
                => /\ last'.result = "Not your turn to write"
                   /\ UNCHANGED tables
                   /\ inserted' = <<>>]_vars

\* A wrote at index 0, the pointer is on C, and A has just been refused
ScenarioABCPlayed ==
    /\ last = Call("createEntry", "Not your turn to write")
    /\ \E g \in GroupsNow :
          /\ groups[g].turnOrder = ABC
          /\ groups[g].currentTurnIndex = 2
          /\ \E e \in 1..Len(entries) :
                entries[e] = [groupId |-> g, authorId |-> "A", turnIndex |-> 0]

\* ---------------------------------------------------------------- C11
\* C11: a createEntry call by an unauthenticated caller, by a caller who is
\* not in group.members, or by a member who is not the turn-holder is rejected
\* with the matching failure, the membership failure coming before the turn
\* failure, and changes nothing: no entry, no pointer change, no notification.
CreateEntryRejectsCleanly ==
    [][last'.op = "createEntry"
       => \A u \in Callers, g \in GroupsNow :
             CreateEntry(u, g)
             => LET group == groups[g]
                    expected ==
                        IF u = NoUser THEN "Not authenticated"
                        ELSE IF u \notin Range(group.members)
                             THEN "Not authorized to write in this group"
                        ELSE IF turnHolder(group) # u
                             THEN "Not your turn to write"
                        ELSE OK
                IN expected # OK
                   => /\ last'.result = expected
                      /\ UNCHANGED <<tables, otherTables>>
                      /\ inserted' = <<>>]_vars

\* somebody was refused as a non-member while a group with room was there
NonMemberRefused ==
    /\ last = Call("createEntry", "Not authorized to write in this group")
    /\ \E g \in GroupsNow : Len(groups[g].members) < Cardinality(Users)

\* ---------------------------------------------------------------- C13
\* C13: a successful passTurn moves the pointer to
\* (currentTurnIndex + 1) mod length(turnOrder), the value createEntry would
\* give it, writes no entry, and inserts exactly one notification: your_turn
\* for the new turn-holder.
PassTurnTellsNextHolderOnly ==
    [][last' = Call("passTurn", OK)
       => \A u \in Users, g \in GroupsNow :
             PassTurn(u, g)
             => LET group == groups[g]
                    newIndex == (group.currentTurnIndex + 1) % Len(group.turnOrder)
                IN /\ groups' = [groups EXCEPT ![g].currentTurnIndex = newIndex]
                   /\ newIndex = createEntryNextTurnIndex(group)
                   /\ entries' = entries
                   /\ inserted' = <<Notification(at(group.turnOrder, newIndex),
                                                 "your_turn", g)>>]_vars

\* the turn was passed in a group of three, and one notification was written
TurnPassedAmongThree ==
    /\ Succeeded("passTurn")
    /\ Len(inserted) = 1
    /\ \E g \in GroupsNow :
          Len(groups[g].members) = 3 /\ inserted[1].userId = turnHolder(groups[g])

\* ---------------------------------------------------------------- C15
joinedGroup(inviteCode) == invitations[findInvitation(inviteCode)].groupId

\* C15: in every step the old turnOrder of a group is a prefix of the new one;
\* it grows by exactly one element, the joining user, in a successful
\* joinGroupWithCode, and not at all in any other step.
TurnOrderAppendOnly ==
    [][/\ Len(groups') >= Len(groups)
       /\ \A g \in GroupsNow :
             LET old == groups[g].turnOrder
                 new == groups'[g].turnOrder
             IN /\ Len(new) >= Len(old)
                /\ SubSeq(new, 1, Len(old)) = old
                /\ IF last'.op = "joinGroupWithCode" /\ last'.result = OK
                      /\ joinedGroup(last'.code) = g
                   THEN \E u \in Users :
                           JoinGroupWithCode(u, last'.code) /\ new = Append(old, u)
                   ELSE new = old]_vars

\* the third member has joined after the pointer had moved
ThirdMemberAppended ==
    /\ Succeeded("joinGroupWithCode")
    /\ \E g \in GroupsNow :
          Len(groups[g].turnOrder) = 3 /\ groups[g].currentTurnIndex = 1

\* ---------------------------------------------------------------- C16
\* C16: a successful joinGroupWithCode inserts exactly one new_member
\* notification for each user who was a member before the join, and no other
\* notification.
JoinTellsEachOldMemberOnce ==
    [][(last'.op = "joinGroupWithCode" /\ last'.result = OK)
       => \A u \in Users :
             JoinGroupWithCode(u, last'.code)
             => LET g == joinedGroup(last'.code)
                    old == Range(groups[g].members)
                    told(m) == {i \in 1..Len(inserted') :
                                   inserted'[i] = Notification(m, "new_member", g)}
                IN /\ \A m \in old : Cardinality(told(m)) = 1
                   /\ \A i \in 1..Len(inserted') : inserted'[i].userId \in old
                   /\ Len(inserted') = Cardinality(old)
                   /\ Count(inserted', "new_member") = Len(inserted')]_vars

\* the third member has joined: the two who were there were told
TwoOldMembersTold ==
    /\ Succeeded("joinGroupWithCode")
    /\ Len(inserted) = 2
    /\ \E g \in GroupsNow : Len(groups[g].members) = 3

\* ---------------------------------------------------------------- C17
\* C17: generateInviteCode succeeds only for the creator of the group; a call
\* by anyone else, members of the group included, is rejected and creates no
\* invitation.
OnlyCreatorInvites ==
    [][last'.op = "generateInviteCode"
       => /\ last'.result = OK
             => \A u \in Callers, g \in GroupIds :
                   (~exists(g) \/ groups[g].createdBy # u)
                   => \A c \in Codes : ~GenerateInviteCode(u, g, c)
          /\ last'.result # OK => UNCHANGED <<tables, otherTables>>]_vars

\* an invitation was refused in a group that has members besides its creator
InviteRefusedInSharedGroup ==
    /\ last = Call("generateInviteCode", "Not authorized to invite to this group")
    /\ \E g \in GroupsNow : Len(groups[g].members) >= 2

\* ---------------------------------------------------------------- C18
\* C18: an invitation is created pending; its status changes only from
\* pending to accepted, which happens in every successful joinGroupWithCode
\* and in no other step; no invitation is ever declined.
InvitationStatusLifecycle ==
    [][/\ Len(invitations') >= Len(invitations)
       /\ \A i \in 1..Len(invitations') :
             /\ invitations'[i].status \in {"pending", "accepted"}
             /\ IF i > Len(invitations)
                THEN /\ invitations'[i].status = "pending"
                     /\ last' = Call("generateInviteCode", OK)
                ELSE invitations'[i].status # invitations[i].status
                     => /\ invitations[i].status = "pending"
                        /\ invitations'[i].status = "accepted"
                        /\ last'.op = "joinGroupWithCode" /\ last'.result = OK
       /\ (last'.op = "joinGroupWithCode" /\ last'.result = OK)
          => \E i \in 1..Len(invitations) :
                /\ invitations[i].inviteCode = last'.code
                /\ invitations[i].status = "pending"
                /\ invitations'[i].status = "accepted"]_vars

\* one invitation has been accepted while another is still pending
OneAcceptedOnePending ==
    /\ Succeeded("joinGroupWithCode")
    /\ \E i, j \in 1..Len(invitations) :
          invitations[i].status = "accepted" /\ invitations[j].status = "pending"

\* ---------------------------------------------------------------- C12
\* C12: when inserting a notification fails in createEntry, passTurn or
\* joinGroupWithCode, the primary change stays: the entry is persisted, the
\* pointer is advanced, the caller is a member.
FanoutFailureKeepsPrimaryChange ==
    [][last'.result = FanoutError
       => /\ last'.op = "createEntry"
             => \A u \in Users, g \in GroupsNow :
                   CreateEntryFanoutThrows(u, g)
                   => /\ Len(entries') = Len(entries) + 1
                      /\ groups'[g].currentTurnIndex
                            = createEntryNextTurnIndex(groups[g])
          /\ last'.op = "passTurn"
             => \A u \in Users, g \in GroupsNow :
                   PassTurnFanoutThrows(u, g)
                   => groups'[g].currentTurnIndex = passTurnNextTurnIndex(groups[g])
          /\ last'.op = "joinGroupWithCode"
             => \A u \in Users :
                   JoinGroupWithCodeFanoutThrows(u, last'.code)
                   => includes(groups'[joinedGroup(last'.code)].members, u)]_vars

draftsOf(table, groupId, userId) ==
    {i \in 1..Len(table) :
        table[i].groupId = groupId /\ table[i].authorId = userId}

\* C19: after a successful saveDraft there is exactly one draft of the caller
\* in the group and its fields are the arguments of this call; it is the
\* document that was there before, if there was one, and the id returned is
\* its id; saving what the draft already holds changes nothing; no other
\* draft changes, no other step touches the drafts, and in no state has a
\* (group, author) pair two drafts.
SaveDraftUpserts ==
    [][/\ (last'.op = "saveDraft" /\ last'.result = OK)
          => \A u \in Users, g \in GroupsNow, a \in DraftArgs :
                SaveDraft(u, g, a)
                => LET before == draftsOf(drafts, g, u)
                       after == draftsOf(drafts', g, u)
                   IN /\ Cardinality(after) = 1
                      /\ after = {last'.code}
                      /\ drafts'[last'.code] =
                            [groupId |-> g, authorId |-> u, title |-> a.title,
                             content |-> a.content, photos |-> a.photos,
                             isQuickReflection |-> a.isQuickReflection]
                      /\ before # {} => (after = before /\ Len(drafts') = Len(drafts))
                      /\ before = {} => Len(drafts') = Len(drafts) + 1
                      /\ \A i \in 1..Len(drafts) :
                            i \notin before => drafts'[i] = drafts[i]
                      /\ (\E i \in before : drafts[i] = drafts'[last'.code])
                            => drafts' = drafts
       /\ ~(last'.op = "saveDraft" /\ last'.result = OK) => drafts' = drafts
       /\ \A g \in GroupIds, u \in Users :
             Cardinality(draftsOf(drafts', g, u)) <= 1]_vars

\* two members have a draft each, and the older one has just been overwritten
OlderDraftOverwritten ==
    /\ last = Returned("saveDraft", 1)
    /\ Len(drafts) = 2
    /\ drafts[1].authorId # drafts[2].authorId
    /\ drafts[1].content = "c2"

\* ---------------------------------------------------------------- C20
\* C20 (as claimed): getGroupEntries and getEntriesForCalendar, called by a
\* signed-in user who is not a member of the group, return the empty list.
QueriesSilentForNonMembers ==
    [][last'.op \in {"getGroupEntries", "getEntriesForCalendar"}
       => \A u \in Users, g \in GroupsNow :
             ~includes(groups[g].members, u)
             => /\ \A n \in {0, 1} :
                      GetGroupEntries(u, g, n)
                      => last' = Listed("getGroupEntries", <<>>)
                /\ \A d \in SUBSET (1..MaxEntries) :
                      GetEntriesForCalendar(u, g, d)
                      => last' = Listed("getEntriesForCalendar", <<>>)]_vars

\* C20 (amended): called by a signed-in user who is not a member of the
\* group, both queries fail with "Not authorized to view this group"; only a
\* caller who is not signed in gets the empty list without a failure.
QueriesRefuseNonMembers ==
    [][last'.op \in {"getGroupEntries", "getEntriesForCalendar"}
       => \A u \in Callers, g \in GroupsNow :
             LET expected(op) ==
                     IF u = NoUser THEN Listed(op, <<>>)
                     ELSE Call(op, "Not authorized to view this group")
             IN ~includes(groups[g].members, u)
                => /\ \A n \in {0, 1} :
                         GetGroupEntries(u, g, n)
                         => last' = expected("getGroupEntries")
                   /\ \A d \in SUBSET (1..MaxEntries) :
                         GetEntriesForCalendar(u, g, d)
                         => last' = expected("getEntriesForCalendar")]_vars

\* a query of a group that has entries was refused
ViewRefused ==
    /\ last = Call("getGroupEntries", "Not authorized to view this group")
    /\ \E g \in GroupsNow :
          entriesOf(g) # <<>> /\ Len(groups[g].members) < Cardinality(Users)

\* ---------------------------------------------------------------- C22
\* C22: a successful createEntry inserts exactly one entry, whose author is
\* the caller and whose turnIndex is the currentTurnIndex the group had before
\* the call, and sets currentTurnIndex to (that value + 1) mod
\* length(turnOrder).
CreateEntryStampsOldPointer ==
    [][last' = Call("createEntry", OK)
       => \A u \in Users, g \in GroupsNow :
             CreateEntry(u, g)
             => LET old == groups[g].currentTurnIndex IN
                /\ Len(entries') = Len(entries) + 1
                /\ SubSeq(entries', 1, Len(entries)) = entries
                /\ entries'[Len(entries')] =
                      [groupId |-> g, authorId |-> u, turnIndex |-> old]
                /\ groups'[g].currentTurnIndex
                      = (old + 1) % Len(groups[g].turnOrder)]_vars

\* the second of three members has written: the entry carries 1, the pointer 2
SecondMemberWrote ==
    /\ Succeeded("createEntry")
    /\ \E g \in GroupsNow :
          /\ Len(groups[g].turnOrder) = 3 /\ groups[g].currentTurnIndex = 2
          /\ entries[Len(entries)] =
                [groupId |-> g, authorId |-> groups[g].turnOrder[2], turnIndex |-> 1]

\* ---------------------------------------------------------------- C23
\* C23: in a group whose turnOrder has one element, the only member holds the
\* turn, createEntry and passTurn by that member are never refused, and each
\* success leaves currentTurnIndex where it was, so the member can write any
\* number of entries in a row until somebody joins.
SoloMemberKeepsTurn ==
    [][\A g \in GroupsNow :
          Len(groups[g].turnOrder) = 1
          => LET sole == groups[g].turnOrder[1] IN
             /\ turnHolder(groups[g]) = sole
             /\ createEntryError(sole, g) = OK
             /\ passTurnError(sole, g) = OK
             /\ (last'.op \in {"createEntry", "passTurn"} /\ last'.result = OK)
                => /\ groups'[g].currentTurnIndex = groups[g].currentTurnIndex
                   /\ turnHolder(groups'[g]) = sole
                   /\ createEntryError(sole, g)' = OK]_vars

\* the only member of a group has written two entries in a row
SoloWroteTwice ==
    /\ Succeeded("createEntry")
    /\ Len(entries) = 2
    /\ \E g \in GroupsNow :
          /\ Len(groups[g].turnOrder) = 1
          /\ entries[1].groupId = g /\ entries[2].groupId = g

\* ---------------------------------------------------------------- C24
\* C24: for every entry e of a group g,
\* g.turnOrder[e.turnIndex] = e.authorId, whatever happened since e was
\* written.
EntrySnapshotNamesAuthor ==
    \A e \in 1..Len(entries) :
        at(groups[entries[e].groupId].turnOrder, entries[e].turnIndex)
            = entries[e].authorId

\* an entry written by the second member, and a third member has joined since
JoinedAfterEntry ==
    /\ Succeeded("joinGroupWithCode")
    /\ \E e \in 1..Len(entries) :
          /\ entries[e].turnIndex = 1
          /\ Len(groups[entries[e].groupId].turnOrder) = 3

\* ---------------------------------------------------------------- C25
NoDuplicates(seq) == \A i, j \in 1..Len(seq) : seq[i] = seq[j] => i = j

\* C25: in every group members and turnOrder are the same sequence, hold no
\* user twice and begin with the creator, and turnOrder[currentTurnIndex] is
\* a member.
MembersAreTheRotation ==
    \A g \in GroupsNow :
        /\ groups[g].members = groups[g].turnOrder
        /\ NoDuplicates(groups[g].members)
        /\ groups[g].members[1] = groups[g].createdBy
        /\ includes(groups[g].members, turnHolder(groups[g]))

\* a full group whose pointer is on the last who joined
FullGroupLastHolds ==
    \E g \in GroupsNow :
        Len(groups[g].members) = 3 /\ groups[g].currentTurnIndex = 2

\* ---------------------------------------------------------------- C26
\* C26: a successful joinGroupWithCode leaves turnOrder[currentTurnIndex] of
\* the group the same user, wherever the pointer is.
JoinKeepsTurnHolder ==
    [][(last'.op = "joinGroupWithCode" /\ last'.result = OK)
       => \A g \in GroupsNow :
             /\ turnHolder(groups'[g]) = turnHolder(groups[g])
             /\ turnHolder(groups[g]) \in Users]_vars

\* somebody joined while the second member held the turn
JoinedWhileSecondHolds ==
    /\ Succeeded("joinGroupWithCode")
    /\ \E g \in GroupsNow :
          /\ Len(groups[g].turnOrder) = 3 /\ groups[g].currentTurnIndex = 1
          /\ inserted[1].groupId = g

\* ---------------------------------------------------------------- C28
\* C28: a joinGroupWithCode call that fails, whether the code is unknown, the
\* invitation not pending or expired, the group missing or the caller already
\* a member, changes nothing: the invitation keeps its status, members and
\* turnOrder stay, no notification is inserted, and a code that a non-member
\* could redeem before the call can still be redeemed after it.
FailedJoinChangesNothing ==
    [][(last'.op = "joinGroupWithCode" /\ last'.result # OK)
       => /\ last'.result \in {"Not authenticated",
                               "Invalid or expired invitation code",
                               "Group not found",
                               "Already a member of this group"}
          /\ UNCHANGED <<tables, otherTables>>
          /\ inserted' = <<>>
          /\ \A u \in Users, c \in Codes :
                joinGroupWithCodeError(u, c) = OK
                => joinGroupWithCodeError(u, c)' = OK]_vars

\* a member typed a code that is still good for somebody else
MemberTypedGoodCode ==
    /\ last.op = "joinGroupWithCode"
    /\ last.result = "Already a member of this group"
    /\ \E u \in Users : joinGroupWithCodeError(u, last.code) = OK

\* ---------------------------------------------------------------- C21
sessionOf(userId, groupId) ==
    LET found == findChat(userId, groupId)
    IN IF found = 0 THEN <<>> ELSE aiChats[found].messages

SameKey(c, d) == c.userId = d.userId /\ c.groupId = d.groupId

\* C21: a chatWithAI call of a signed-in user ends, in the try branch and in
\* the catch branch alike, by returning {message, timestamp}; the message is
\* the endpoint's reply in the try branch and one of the five fallback
\* strings in the catch branch, and the transcript saved by the call is the
\* history the call read, then the user's message, then that reply.
ChatAnswersAndPersists ==
    [][\A i \in 1..Len(chatCalls) :
          (chatCalls[i].pc = "save" /\ chatCalls'[i].pc = "returned")
          => LET c == chatCalls'[i] IN
             /\ c.userId \in Users
             /\ c.branch \in {"try", "catch"}
             /\ c.branch = "try" => c.result.message = ApiReply
             /\ c.branch = "catch" => c.result.message \in Range(fallbackResponses)
             /\ c.result.timestamp = now
             /\ sessionOf(chatCalls[i].userId, chatCalls[i].groupId)' =
                   c.chatSession \o
                   <<[role |-> "user", content |-> c.message, timestamp |-> now],
                     [role |-> "assistant", content |-> c.result.message,
                      timestamp |-> now]>>]_vars

\* a call that found a history fell back and returned
FallbackAfterHistory ==
    \E i \in 1..Len(chatCalls) :
       /\ chatCalls[i].pc = "returned"
       /\ chatCalls[i].branch = "catch"
       /\ chatCalls[i].chatSession # <<>>
       /\ sessionOf(chatCalls[i].userId, chatCalls[i].groupId) = chatCalls[i].messages

\* ---------------------------------------------------------------- C29
\* C29: when a chatWithAI call saves while the session holds what another
\* call for the same (user, group) key saved, the transcript after the save
\* holds the user message and the assistant reply of both calls.
NoChatMessageLost ==
    [][\A i, j \in 1..Len(chatCalls) :
          (/\ i # j
           /\ SameKey(chatCalls[i], chatCalls[j])
           /\ chatCalls[i].pc = "returned"
           /\ sessionOf(chatCalls[i].userId, chatCalls[i].groupId) = chatCalls[i].messages
           /\ chatCalls[j].pc = "save" /\ chatCalls'[j].pc = "returned")
          => LET kept == {m.content :
                            m \in Range(sessionOf(chatCalls[j].userId,
                                                  chatCalls[j].groupId)')}
             IN {chatCalls[i].message, chatCalls[i].result.message,
                 chatCalls[j].message, chatCalls[j].result.message} \subseteq kept]_vars

\* ---------------------------------------------------------------- C30
\* C30: no two aiChats documents have the same (user, group) key, and a
\* clearChatHistory call leaves no document of its key and every document of
\* the other keys as it was.
OneSessionPerKey ==
    /\ [](\A i, j \in 1..Len(aiChats) : SameKey(aiChats[i], aiChats[j]) => i = j)
    /\ [][\A u \in Users, g \in ChatGroups :
             (last'.op = "clearChatHistory" /\ ClearChatHistory(u, g))
             => Range(aiChats') =
                   {d \in Range(aiChats) : ~(d.userId = u /\ d.groupId = g)}]_vars

\* one of two sessions was cleared, the other is still there
ClearedOneOfTwo ==
    /\ last.op = "clearChatHistory" /\ last.result = OK
    /\ Len(aiChats) = 1
    /\ \E i, j \in 1..Len(chatCalls) :
          /\ chatCalls[i].pc = "returned" /\ chatCalls[j].pc = "returned"
          /\ ~SameKey(chatCalls[i], chatCalls[j])
          /\ SameKey(chatCalls[j], aiChats[1])
          /\ aiChats[1].messages = chatCalls[j].messages

\* ---------------------------------------------------------------- C27
InRotation(u, g) == g \in GroupsNow /\ includes(groups[g].turnOrder, u)
HoldsTurn(u, g) == g \in GroupsNow /\ turnHolder(groups[g]) = u

\* a turn of h begins in group g with this step, and h has held it before
TurnComesBack(h, g) ==
    /\ g \in GroupsNow
    /\ last'.op \in {"passTurn", "createEntry"} /\ last'.result = OK
    /\ turns'[g] # turns[g]
    /\ turns'[g][h].held = [v \in Users |-> 0]
    /\ turnHolder(groups'[g]) = h
    /\ turns[g][h].since # {}

EveryMemberGetsTheTurn ==
    \A u \in Users, g \in GroupIds : InRotation(u, g) ~> HoldsTurn(u, g)

\* the rotation read with turnOrder as it is when the turn comes back:
\* between two consecutive turns of a user every other user of turnOrder
\* holds the turn exactly once
RotationFairForAllOfTurnOrder ==
    /\ EveryMemberGetsTheTurn
    /\ [][\A h \in Users, g \in GroupIds :
             TurnComesBack(h, g)
             => \A v \in Range(groups'[g].turnOrder) \ {h} :
                   turns[g][h].held[v] = 1]_vars

\* C27: when every turn-holder eventually writes or passes, every user of
\* turnOrder eventually holds the turn, and between two consecutive turns of
\* a user every other user who was in turnOrder when the first of the two
\* began holds the turn exactly once, a user who joined in between at most
\* once.
RotationFair ==
    /\ EveryMemberGetsTheTurn
    /\ [][\A h \in Users, g \in GroupIds :
             TurnComesBack(h, g)
             => /\ \A v \in turns[g][h].since \ {h} : turns[g][h].held[v] = 1
                /\ \A v \in Users \ turns[g][h].since : turns[g][h].held[v] <= 1
                /\ turns[g][h].held[h] = 0]_vars

\* the turn came back to a user who wrote in an earlier turn, and a user
\* who joined in between has not held it yet
TurnBackJoinerSkipped ==
    \E g \in GroupsNow, h \in Users, v \in Users :
       /\ last = Call("passTurn", OK)
       /\ turnHolder(groups[g]) = h
       /\ turns[g][h].held = [w \in Users |-> 0]
       /\ \E e \in Range(entries) : e.groupId = g /\ e.authorId = h
       /\ v # h /\ InRotation(v, g) /\ turns[g][v].since = {}
====
